---- MODULE Spec2Model ----
(***************************************************************************)
(* Model of FormUtils.js (gs-sheets-form-utils): copying / moving rows of  *)
(* form submissions into a destination sheet, placement of the first       *)
(* empty row, digest based duplicate detection and the bulk sweep.         *)
(*                                                                         *)
(* The spreadsheet host is modelled by the sheets it stores: a sheet is a  *)
(* sequence of physical rows plus its number of frozen rows; every host    *)
(* call (getLastRow, insertRowBefore, copyTo, deleteRow, ...) is atomic.   *)
(* An execution (a trigger run) works through a script of library calls.   *)
(***************************************************************************)
EXTENDS Integers, Sequences, FiniteSets, Bags, TLC

VARIABLES
    sheets,   \* sheet name -> [rows : Seq(row), frozen : Nat]
    lock,     \* holder of the script lock, 0 when free
    pc,       \* execution -> position in the library code
    call,     \* execution -> arguments of the library call in progress
    loc,      \* execution -> local variables of the call in progress
    todo,     \* execution -> library calls still to be made, in order
    ops,      \* execution -> host mutations and callbacks performed so far
    nextId,   \* identity given to the next physical row the host creates
    sheets0   \* the sheets as they were when the executions started (never changes)

vars == <<sheets, lock, pc, call, loc, todo, ops, nextId, sheets0>>

(***************************************************************************)
(* Bounds                                                                  *)
(***************************************************************************)
\* columns allocated in every sheet (getMaxColumns)
NumCols == 4
\* most rows of a generated destination table
MaxRows == 5
\* most frozen rows of a generated table
MaxFrozen == 2
\* most rows below the header of a generated source table
MaxSweepRows == 3
\* most successive appends of one script
MaxAppends == 3
\* most rows of a table generated for a duplicate check
MaxCheckRows == 3
\* largest shift, in either direction, given to getPeriodicSheet
MaxShift == 3

\* physical rows present at the start have ids up to 2 * IdBase
IdBase == MaxRows + MaxSweepRows + 2

Procs == {1, 2}
Names == {"src", "dst"}

Max(S) == CHOOSE x \in S : \A y \in S : y <= x
Min(S) == CHOOSE x \in S : \A y \in S : x <= y

(***************************************************************************)
(* Rows and sheets of the host                                             *)
(***************************************************************************)
\* v: cell values ("" is an empty cell); cb: columns holding checkbox validation
Pad(v) == v \o [i \in 1..(NumCols - Len(v)) |-> ""]
Row(id, v, cb) == [id |-> id, v |-> Pad(v), cb |-> cb]
BlankRow(id) == Row(id, <<>>, {})

getMaxRows(s) == Len(s.rows)
getMaxColumns(s) == NumCols
getFrozenRows(s) == s.frozen

RowHasContent(r) == \E c \in 1..Len(r.v) : r.v[c] # ""

\* position of the last row that has content, 0 for a sheet without content
getLastRow(s) == Max({0} \cup {i \in 1..Len(s.rows) : RowHasContent(s.rows[i])})

\* position of the last column that has content
getLastColumn(s) ==
    Max({0} \cup {c \in 1..NumCols : \E i \in 1..Len(s.rows) : s.rows[i].v[c] # ""})

\* sheet.getRange(row, col, numRows, numCols) is refused outside the grid
RangeOk(s, row, col, numRows, numCols) ==
    /\ row >= 1 /\ col >= 1 /\ numRows >= 1 /\ numCols >= 1
    /\ row + numRows - 1 <= getMaxRows(s)
    /\ col + numCols - 1 <= getMaxColumns(s)

\* values of the one-row range (row, col, 1, n)
getValues(s, row, col, n) == SubSeq(s.rows[row].v, col, col + n - 1)

\* values of the one-column range (1, col, last, 1), flattened
getColumn(s, col, last) == [i \in 1..last |-> s.rows[i].v[col]]

isBlank(s, row) == ~RowHasContent(s.rows[row])

InsertAt(rows, i, r) == SubSeq(rows, 1, i - 1) \o <<r>> \o SubSeq(rows, i, Len(rows))
RemoveAt(rows, i) == SubSeq(rows, 1, i - 1) \o SubSeq(rows, i + 1, Len(rows))

insertRowBefore(s, row, id) == [s EXCEPT !.rows = InsertAt(@, row, BlankRow(id))]
insertRowAfter(s, row, id) == [s EXCEPT !.rows = InsertAt(@, row + 1, BlankRow(id))]
deleteRow(s, row) == [s EXCEPT !.rows = RemoveAt(@, row)]

\* range.copyTo(destination, {contentsOnly:true}): values only, validation kept
WriteCells(s, row, col, vals) ==
    [s EXCEPT !.rows[row].v =
        [c \in 1..Len(@) |-> IF c >= col /\ c < col + Len(vals) THEN vals[c - col + 1] ELSE @[c]]]

(***************************************************************************)
(* Digest                                                                  *)
(***************************************************************************)
RECURSIVE JoinFrom(_, _)
JoinFrom(vals, i) ==
    IF i > Len(vals) THEN ""
    ELSE IF i = Len(vals) THEN vals[i]
    ELSE vals[i] \o "," \o JoinFrom(vals, i + 1)

\* Array.prototype.join() with its default separator
Join(vals) == JoinFrom(vals, 1)

\* Array.prototype.slice(skip)
Slice(vals, skip) == SubSeq(vals, skip + 1, Len(vals))

\* base64 of the SHA-1 of a string: a collision-free function of the string
Sha1Base64(str) == "#" \o str

\* (mutant) the skipped leading values are hashed too
getDigestNoSkip(vals, skip) == Sha1Base64(Join(vals))

getDigest(vals, skip) == Sha1Base64(Join(Slice(vals, skip)))

(***************************************************************************)
(* isDuplicate, isRangeEmpty, getRangesInUse, getFirstEmptyRow             *)
(***************************************************************************)
\* the value of "last" that stands for the default, null
NullLast == 0 - 1

LastToCheck(s, last) == IF last # NullLast THEN last ELSE getLastRow(s)

\* isDuplicate raises: the raw mode, or a digest column outside the grid
isDuplicateThrows(vals, s, useDigest, last, skip) ==
    /\ LastToCheck(s, last) # 0
    /\ \/ ~useDigest
       \/ ~RangeOk(s, 1, Len(vals) + 1, LastToCheck(s, last), 1)

\* (mutant) the whole digest column is searched, whatever last is
isDuplicateWholeColumn(vals, s, useDigest, last, skip) ==
    IF LastToCheck(s, last) = 0 THEN FALSE
    ELSE \E i \in 1..getMaxRows(s) :
            getColumn(s, Len(vals) + 1, getMaxRows(s))[i] = getDigest(vals, skip)

isDuplicate(vals, s, useDigest, last, skip) ==
    IF LastToCheck(s, last) = 0 THEN FALSE
    ELSE \E i \in 1..LastToCheck(s, last) :
            getColumn(s, Len(vals) + 1, LastToCheck(s, last))[i] = getDigest(vals, skip)

\* (mutant) checkbox cells are never ignored
isRangeEmptyBlank(s, row, ignoreCheckbox) == isBlank(s, row)

isRangeEmpty(s, row, ignoreCheckbox) ==
    IF ~ignoreCheckbox THEN isBlank(s, row)
    ELSE \A c \in 1..NumCols :
            ~(s.rows[row].v[c] # "" /\ ~(c \in s.rows[row].cb))

\* rows of the ranges getRangesInUse returns, in increasing order (excludeFrozen)
RECURSIVE RowsInUseFrom(_, _)
RowsInUseFrom(s, row) ==
    IF row > getLastRow(s) THEN <<>>
    ELSE (IF \E c \in 1..getLastColumn(s) : s.rows[row].v[c] # "" THEN <<row>> ELSE <<>>)
            \o RowsInUseFrom(s, row + 1)

\* (mutant) the frozen rows are among the ranges returned
getRangesInUseFrozen(s) == RowsInUseFrom(s, 1)

getRangesInUse(s) == RowsInUseFrom(s, getFrozenRows(s) + 1)

Reverse(q) == [i \in 1..Len(q) |-> q[Len(q) + 1 - i]]

\* do{ i--; }while(i>=min && data[i] === ""), data being column 1 of rows 1..max
RECURSIVE ScanBack(_, _, _)
ScanBack(s, i, min) ==
    IF i >= min /\ s.rows[i + 1].v[1] = "" THEN ScanBack(s, i - 1, min) ELSE i

\* (mutant) the forward scan never goes past the last row with content
RECURSIVE ScanForwardShort(_, _, _, _)
ScanForwardShort(s, i, max, ign) ==
    IF i < max - 1 /\ ~isRangeEmpty(s, i + 1, ign)
    THEN ScanForwardShort(s, i + 1, max, ign) ELSE i

\* do{ i++; }while(i<max && !isRangeEmpty(getRow(i+1), ignoreCheckboxes))
RECURSIVE ScanForward(_, _, _, _)
ScanForward(s, i, max, ign) ==
    IF i < max /\ ~isRangeEmpty(s, i + 1, ign) THEN ScanForward(s, i + 1, max, ign) ELSE i

\* the reading half of getFirstEmptyRow raises (a range of no rows)
FirstEmptyThrows(s, ignoreCheckboxes) ==
    ~ignoreCheckboxes /\ ~RangeOk(s, 1, 1, getLastRow(s), 1)

\* (mutant) the Append policy targets the last row with content itself
FirstEmptyRowMaxLast(s, ignoreCheckboxes) ==
    IF ignoreCheckboxes
    THEN [row |-> getLastRow(s), max |-> getMaxRows(s)]
    ELSE LET min == getFrozenRows(s) + 1
             max == getLastRow(s)
             i   == ScanBack(s, max - 1, min)
         IN [row |-> ScanForward(s, i, max, ignoreCheckboxes) + 1, max |-> max]

\* (mutant) the forward scan starts at the first unfrozen row
FirstEmptyRowMaxFromTop(s, ignoreCheckboxes) ==
    IF ignoreCheckboxes
    THEN [row |-> getLastRow(s) + 1, max |-> getMaxRows(s)]
    ELSE [row |-> ScanForward(s, getFrozenRows(s), getLastRow(s), ignoreCheckboxes) + 1,
          max |-> getLastRow(s)]

\* the values of row and max when getFirstEmptyRow reaches its insertion
FirstEmptyRowMax(s, ignoreCheckboxes) ==
    IF ignoreCheckboxes
    THEN [row |-> getLastRow(s) + 1, max |-> getMaxRows(s)]
    ELSE LET min == getFrozenRows(s) + 1
             max == getLastRow(s)
             i   == ScanBack(s, max - 1, min)
         IN [row |-> ScanForward(s, i, max, ignoreCheckboxes) + 1, max |-> max]

\* the row getFirstEmptyRow returns and inserts, from row and max
FirstEmptyTarget(row, max) == IF row > max THEN max + 1 ELSE row

\* insertRowAfter(max) / insertRowBefore(row) are refused outside the grid
InsertOk(s, row, max) ==
    IF row > max THEN max >= 1 /\ max <= getMaxRows(s)
    ELSE row >= 1 /\ row <= getMaxRows(s)

\* (mutant) the blank row is always inserted after the row found
InsertReservedAfter(s, row, max, id) ==
    IF row > max THEN insertRowAfter(s, max, id) ELSE insertRowAfter(s, row, id)

InsertReserved(s, row, max, id) ==
    IF row > max THEN insertRowAfter(s, max, id) ELSE insertRowBefore(s, row, id)

(***************************************************************************)
(* Executions                                                              *)
(***************************************************************************)
Range(sheet, row, n) == [sheet |-> sheet, row |-> row, n |-> n]

\* arguments of a library call; fields a function does not take are ignored
Call(fn, range, sheet, digest, cb, useLock, ign) ==
    [fn |-> fn, range |-> range, sheet |-> sheet, digest |-> digest, cb |-> cb,
     useLock |-> useLock, ign |-> ign, last |-> NullLast, skip |-> 1, del |-> TRUE]

NoCall == Call("none", Range("src", 1, 1), "dst", FALSE, FALSE, FALSE, FALSE)

Loc0 == [duplicate |-> FALSE, row |-> 0, max |-> 0, firstEmpty |-> 0,
         destRow |-> 0, destCols |-> 0, isDup |-> "none"]

Event(op, sheet, row, id) == [op |-> op, sheet |-> sheet, row |-> row, id |-> id]

\* execution p goes on at label (the record of the initial sheets stays as it is)
Goto(p, label) == pc' = [pc EXCEPT ![p] = label] /\ sheets0' = sheets0
Log(p, e) == ops' = [ops EXCEPT ![p] = Append(@, e)]

\* (mutant) moveToFirstEmptyRow passes its own useLock on to the copy
CopyUseLockPassed(p) == call[p].useLock

\* the useLock the copy runs with: moveToFirstEmptyRow passes false
CopyUseLock(p) == IF call[p].fn = "move" THEN FALSE ELSE call[p].useLock

Src(p) == sheets[call[p].range.sheet]
Dst(p) == sheets[call[p].sheet]

SrcOk(p) == RangeOk(Src(p), call[p].range.row, 1, 1, call[p].range.n)
\* (mutant) the values are taken from the source in the opposite order
SrcValuesReversed(p) == Reverse(getValues(Src(p), call[p].range.row, 1, call[p].range.n))

SrcValues(p) == getValues(Src(p), call[p].range.row, 1, call[p].range.n)

\* the execution takes its next library call, or ends
StartCall(p) ==
    /\ pc[p] = "next"
    /\ IF todo[p] = <<>>
       THEN Goto(p, "done") /\ UNCHANGED <<call, todo>>
       ELSE /\ call' = [call EXCEPT ![p] = Head(todo[p])]
            /\ todo' = [todo EXCEPT ![p] = Tail(@)]
            /\ Goto(p, CASE Head(todo[p]).fn = "move" -> "m_lock"
                         [] Head(todo[p]).fn = "copy" -> "c_lock"
                         [] Head(todo[p]).fn = "isDuplicate" -> "d_check"
                         [] Head(todo[p]).fn = "isRangeEmpty" -> "e_check"
                         [] Head(todo[p]).fn = "getPeriodicSheet" -> "p_sheet"
                         [] Head(todo[p]).fn = "getOrCreateSheet" -> "o_sheet"
                         [] OTHER -> "s_ranges")
    /\ UNCHANGED <<sheets, lock, loc, ops, nextId>>

\* (mutant) the source row is deleted before the copy is made
MoveAcquireDeleting(p) ==
    /\ pc[p] = "m_lock"
    /\ RangeOk(Src(p), call[p].range.row, 1, 1, 1)
    /\ IF call[p].useLock THEN lock = 0 /\ lock' = p ELSE UNCHANGED lock
    /\ sheets' = [sheets EXCEPT ![call[p].range.sheet] = deleteRow(@, call[p].range.row)]
    /\ Log(p, Event("delete", call[p].range.sheet, call[p].range.row,
                    Src(p).rows[call[p].range.row].id))
    /\ Goto(p, "c_lock")
    /\ UNCHANGED <<call, loc, todo, nextId>>

\* moveToFirstEmptyRow: if(useLock) lock.waitLock(300000)
MoveAcquire(p) ==
    /\ pc[p] = "m_lock"
    /\ IF call[p].useLock
       THEN lock = 0 /\ lock' = p /\ Log(p, Event("lock", "", 0, 0))
       ELSE UNCHANGED <<lock, ops>>
    /\ Goto(p, "c_lock")
    /\ UNCHANGED <<sheets, call, loc, todo, nextId>>

\* (mutant) the copy goes on without waiting for the lock to be free
CopyAcquireNoWait(p) ==
    /\ pc[p] = "c_lock"
    /\ IF CopyUseLock(p)
       THEN lock' = p /\ Log(p, Event("lock", "", 0, 0))
       ELSE UNCHANGED <<lock, ops>>
    /\ Goto(p, "c_dup")
    /\ UNCHANGED <<sheets, call, loc, todo, nextId>>

\* copyToFirstEmptyRow: if(useLock) lock.waitLock(300000)
CopyAcquire(p) ==
    /\ pc[p] = "c_lock"
    /\ IF CopyUseLock(p)
       THEN lock = 0 /\ lock' = p /\ Log(p, Event("lock", "", 0, 0))
       ELSE UNCHANGED <<lock, ops>>
    /\ Goto(p, "c_dup")
    /\ UNCHANGED <<sheets, call, loc, todo, nextId>>

\* (mutant) the wait for the lock ends only after the destination row was reserved
LockTimeoutReserving(p) ==
    /\ \/ pc[p] = "m_lock" /\ call[p].useLock
       \/ pc[p] = "c_lock" /\ CopyUseLock(p)
    /\ lock # 0 /\ lock # p
    /\ sheets' = [sheets EXCEPT ![call[p].sheet] =
                    insertRowAfter(@, getMaxRows(@), nextId)]
    /\ nextId' = nextId + 1
    /\ Goto(p, "failed")
    /\ UNCHANGED <<lock, call, loc, todo, ops>>

\* waitLock raises when the lock stays with another execution for the whole wait
LockTimeout(p) ==
    /\ \/ pc[p] = "m_lock" /\ call[p].useLock
       \/ pc[p] = "c_lock" /\ CopyUseLock(p)
    /\ lock # 0 /\ lock # p
    /\ Goto(p, "failed")
    /\ UNCHANGED <<sheets, lock, call, loc, todo, ops, nextId>>

\* let duplicate = duplicateCallback !== null && isDuplicate(range, sheet, digest)
CheckDuplicate(p) ==
    /\ pc[p] = "c_dup"
    /\ IF ~call[p].cb
       THEN /\ loc' = [loc EXCEPT ![p].duplicate = FALSE]
            /\ Goto(p, "g_read")
       ELSE IF ~SrcOk(p) \/ isDuplicateThrows(SrcValues(p), Dst(p), call[p].digest, NullLast, 1)
       THEN Goto(p, "failed") /\ UNCHANGED loc
       ELSE /\ loc' = [loc EXCEPT ![p].duplicate =
                          isDuplicate(SrcValues(p), Dst(p), call[p].digest, NullLast, 1)]
            /\ Goto(p, "g_read")
    /\ UNCHANGED <<sheets, lock, call, todo, ops, nextId>>

\* getFirstEmptyRow up to the computation of row and max
PlaceRead(p) ==
    /\ pc[p] = "g_read"
    /\ IF FirstEmptyThrows(Dst(p), call[p].ign)
       THEN Goto(p, "failed") /\ UNCHANGED loc
       ELSE /\ loc' = [loc EXCEPT ![p].row = FirstEmptyRowMax(Dst(p), call[p].ign).row,
                                  ![p].max = FirstEmptyRowMax(Dst(p), call[p].ign).max]
            /\ Goto(p, "g_insert")
    /\ UNCHANGED <<sheets, lock, call, todo, ops, nextId>>

\* getFirstEmptyRow: the insertion of the reserved row and the returned range
PlaceInsert(p) ==
    /\ pc[p] = "g_insert"
    /\ IF ~InsertOk(Dst(p), loc[p].row, loc[p].max)
       THEN Goto(p, "failed") /\ UNCHANGED <<sheets, loc, ops, nextId>>
       ELSE /\ sheets' = [sheets EXCEPT ![call[p].sheet] =
                            InsertReserved(@, loc[p].row, loc[p].max, nextId)]
            /\ nextId' = nextId + 1
            /\ loc' = [loc EXCEPT ![p].firstEmpty = FirstEmptyTarget(loc[p].row, loc[p].max)]
            /\ Log(p, Event("insert", call[p].sheet,
                            FirstEmptyTarget(loc[p].row, loc[p].max), nextId))
            /\ Goto(p, "c_copy")
    /\ UNCHANGED <<lock, call, todo>>

\* (mutant) the values are written into the physical row the call reserved,
\* wherever other insertions have moved it
TransferReserved(p) ==
    /\ pc[p] = "c_copy"
    /\ IF ~SrcOk(p) \/ ~RangeOk(Dst(p), loc[p].firstEmpty, 1, 1, call[p].range.n)
       THEN Goto(p, "failed") /\ UNCHANGED <<sheets, loc, ops>>
       ELSE LET own == ops[p][Len(ops[p])].id
                at  == CHOOSE r \in 1..Len(Dst(p).rows) : Dst(p).rows[r].id = own
            IN /\ sheets' = [sheets EXCEPT ![call[p].sheet] = WriteCells(@, at, 1, SrcValues(p))]
               /\ loc' = [loc EXCEPT ![p].destRow = at, ![p].destCols = call[p].range.n]
               /\ Log(p, Event("write", call[p].sheet, at, own))
               /\ Goto(p, "c_digest")
    /\ UNCHANGED <<lock, call, todo, nextId>>

\* (mutant) the values are written over the last row that has content
TransferOverLast(p) ==
    /\ pc[p] = "c_copy"
    /\ IF ~SrcOk(p) \/ ~RangeOk(Dst(p), loc[p].firstEmpty, 1, 1, call[p].range.n)
       THEN Goto(p, "failed") /\ UNCHANGED <<sheets, loc, ops>>
       ELSE LET at == Max({1, getLastRow(Dst(p))})
            IN /\ sheets' = [sheets EXCEPT ![call[p].sheet] = WriteCells(@, at, 1, SrcValues(p))]
               /\ loc' = [loc EXCEPT ![p].destRow = at, ![p].destCols = call[p].range.n]
               /\ Log(p, Event("write", call[p].sheet, at, Dst(p).rows[at].id))
               /\ Goto(p, "c_digest")
    /\ UNCHANGED <<lock, call, todo, nextId>>

\* (mutant) a range found to be a duplicate is not written to the destination
TransferUnlessDuplicate(p) ==
    /\ pc[p] = "c_copy"
    /\ IF ~SrcOk(p) \/ ~RangeOk(Dst(p), loc[p].firstEmpty, 1, 1, call[p].range.n)
       THEN Goto(p, "failed") /\ UNCHANGED <<sheets, loc, ops>>
       ELSE IF loc[p].duplicate
       THEN /\ loc' = [loc EXCEPT ![p].destRow = loc[p].firstEmpty,
                                  ![p].destCols = call[p].range.n]
            /\ Goto(p, "c_notify")
            /\ UNCHANGED <<sheets, ops>>
       ELSE /\ sheets' = [sheets EXCEPT ![call[p].sheet] =
                            WriteCells(@, loc[p].firstEmpty, 1, SrcValues(p))]
            /\ loc' = [loc EXCEPT ![p].destRow = loc[p].firstEmpty,
                                  ![p].destCols = call[p].range.n]
            /\ Log(p, Event("write", call[p].sheet, loc[p].firstEmpty,
                            Dst(p).rows[loc[p].firstEmpty].id))
            /\ Goto(p, "c_digest")
    /\ UNCHANGED <<lock, call, todo, nextId>>

\* destination = sheet.getRange(...); range.copyTo(destination, {contentsOnly:true})
Transfer(p) ==
    /\ pc[p] = "c_copy"
    /\ IF ~SrcOk(p) \/ ~RangeOk(Dst(p), loc[p].firstEmpty, 1, 1, call[p].range.n)
       THEN Goto(p, "failed") /\ UNCHANGED <<sheets, loc, ops>>
       ELSE /\ sheets' = [sheets EXCEPT ![call[p].sheet] =
                            WriteCells(@, loc[p].firstEmpty, 1, SrcValues(p))]
            /\ loc' = [loc EXCEPT ![p].destRow = loc[p].firstEmpty,
                                  ![p].destCols = call[p].range.n]
            /\ Log(p, Event("write", call[p].sheet, loc[p].firstEmpty,
                            Dst(p).rows[loc[p].firstEmpty].id))
            /\ Goto(p, "c_digest")
    /\ UNCHANGED <<lock, call, todo, nextId>>

\* (mutant) the digest is written into the last value cell of the range
DigestAtLastColumn(p) ==
    /\ pc[p] = "c_digest"
    /\ IF ~call[p].digest
       THEN Goto(p, "c_notify") /\ UNCHANGED <<sheets, loc, ops>>
       ELSE IF ~RangeOk(Dst(p), loc[p].destRow, 1, 1, loc[p].destCols + 1)
       THEN Goto(p, "failed") /\ UNCHANGED <<sheets, loc, ops>>
       ELSE /\ sheets' = [sheets EXCEPT ![call[p].sheet] =
                            WriteCells(@, loc[p].destRow, loc[p].destCols,
                                <<getDigest(getValues(@, loc[p].destRow, 1, loc[p].destCols), 1)>>)]
            /\ loc' = [loc EXCEPT ![p].destCols = @ + 1]
            /\ Log(p, Event("digest", call[p].sheet, loc[p].destRow,
                            Dst(p).rows[loc[p].destRow].id))
            /\ Goto(p, "c_notify")
    /\ UNCHANGED <<lock, call, todo, nextId>>

\* if(digest) destination = addDigest(destination)
Digest(p) ==
    /\ pc[p] = "c_digest"
    /\ IF ~call[p].digest
       THEN Goto(p, "c_notify") /\ UNCHANGED <<sheets, loc, ops>>
       ELSE IF ~RangeOk(Dst(p), loc[p].destRow, 1, 1, loc[p].destCols + 1)
       THEN Goto(p, "failed") /\ UNCHANGED <<sheets, loc, ops>>
       ELSE /\ sheets' = [sheets EXCEPT ![call[p].sheet] =
                            WriteCells(@, loc[p].destRow, loc[p].destCols + 1,
                                <<getDigest(getValues(@, loc[p].destRow, 1, loc[p].destCols), 1)>>)]
            /\ loc' = [loc EXCEPT ![p].destCols = @ + 1]
            /\ Log(p, Event("digest", call[p].sheet, loc[p].destRow,
                            Dst(p).rows[loc[p].destRow].id))
            /\ Goto(p, "c_notify")
    /\ UNCHANGED <<lock, call, todo, nextId>>

\* (mutant) the callback is invoked whenever one was supplied
NotifyAlways(p) ==
    /\ pc[p] = "c_notify"
    /\ IF call[p].cb
       THEN Log(p, Event("callback", call[p].sheet, loc[p].destRow, loc[p].destCols))
       ELSE UNCHANGED ops
    /\ Goto(p, "c_unlock")
    /\ UNCHANGED <<sheets, lock, call, loc, todo, nextId>>

\* if(duplicate) duplicateCallback(destination)
Notify(p) ==
    /\ pc[p] = "c_notify"
    /\ IF loc[p].duplicate
       THEN Log(p, Event("callback", call[p].sheet, loc[p].destRow, loc[p].destCols))
       ELSE UNCHANGED ops
    /\ Goto(p, "c_unlock")
    /\ UNCHANGED <<sheets, lock, call, loc, todo, nextId>>

\* copyToFirstEmptyRow: if(useLock) lock.releaseLock(); return destination
CopyRelease(p) ==
    /\ pc[p] = "c_unlock"
    /\ IF CopyUseLock(p)
       THEN lock' = 0 /\ Log(p, Event("unlock", "", 0, 0))
       ELSE UNCHANGED <<lock, ops>>
    /\ Goto(p, IF call[p].fn = "move" THEN "m_delete" ELSE "next")
    /\ UNCHANGED <<sheets, call, loc, todo, nextId>>

\* (mutant) the row below the moved range is deleted
MoveDeleteBelow(p) ==
    /\ pc[p] = "m_delete"
    /\ IF ~RangeOk(Src(p), call[p].range.row + 1, 1, 1, 1)
       THEN Goto(p, "failed") /\ UNCHANGED <<sheets, ops>>
       ELSE /\ sheets' = [sheets EXCEPT ![call[p].range.sheet] =
                            deleteRow(@, call[p].range.row + 1)]
            /\ Log(p, Event("delete", call[p].range.sheet, call[p].range.row + 1,
                            Src(p).rows[call[p].range.row + 1].id))
            /\ Goto(p, "m_unlock")
    /\ UNCHANGED <<lock, call, loc, todo, nextId>>

\* range.getSheet().deleteRow(range.getRow())
MoveDelete(p) ==
    /\ pc[p] = "m_delete"
    /\ IF ~RangeOk(Src(p), call[p].range.row, 1, 1, 1)
       THEN Goto(p, "failed") /\ UNCHANGED <<sheets, ops>>
       ELSE /\ sheets' = [sheets EXCEPT ![call[p].range.sheet] = deleteRow(@, call[p].range.row)]
            /\ Log(p, Event("delete", call[p].range.sheet, call[p].range.row,
                            Src(p).rows[call[p].range.row].id))
            /\ Goto(p, "m_unlock")
    /\ UNCHANGED <<lock, call, loc, todo, nextId>>

\* moveToFirstEmptyRow: if(useLock) lock.releaseLock(); return destination
MoveRelease(p) ==
    /\ pc[p] = "m_unlock"
    /\ IF call[p].useLock
       THEN lock' = 0 /\ Log(p, Event("unlock", "", 0, 0))
       ELSE UNCHANGED <<lock, ops>>
    /\ Goto(p, "next")
    /\ UNCHANGED <<sheets, call, loc, todo, nextId>>

\* the statement execution p is at calls the host or the callback
AtHostCall(p) ==
    \/ pc[p] \in {"g_read", "g_insert", "c_copy", "m_delete"}
    \/ pc[p] = "c_dup" /\ call[p].cb
    \/ pc[p] = "c_digest" /\ call[p].digest
    \/ pc[p] = "c_notify" /\ loc[p].duplicate

\* a host call or the callback raises: the error leaves the library uncaught
Fail(p) ==
    /\ AtHostCall(p)
    /\ Goto(p, "failed")
    /\ UNCHANGED <<sheets, lock, call, loc, todo, ops, nextId>>

\* isDuplicate(range, sheet, useDigest, last, skip) called by the script itself
IsDuplicateCall(p) ==
    /\ pc[p] = "d_check"
    /\ IF ~SrcOk(p) \/ isDuplicateThrows(SrcValues(p), Dst(p), call[p].digest,
                                         call[p].last, call[p].skip)
       THEN Goto(p, "failed") /\ UNCHANGED loc
       ELSE /\ loc' = [loc EXCEPT ![p].isDup =
                          IF isDuplicate(SrcValues(p), Dst(p), call[p].digest,
                                         call[p].last, call[p].skip)
                          THEN "true" ELSE "false"]
            /\ Goto(p, "next")
    /\ UNCHANGED <<sheets, lock, call, todo, ops, nextId>>

\* isRangeEmpty(range, ignoreCheckbox) called by the script itself, on a whole row
IsRangeEmptyCall(p) ==
    /\ pc[p] = "e_check"
    /\ IF ~RangeOk(Src(p), call[p].range.row, 1, 1, NumCols)
       THEN Goto(p, "failed") /\ UNCHANGED ops
       ELSE /\ Log(p, Event("isRangeEmpty", call[p].range.sheet, call[p].range.row,
                            IF isRangeEmpty(Src(p), call[p].range.row, call[p].ign)
                            THEN 1 ELSE 0))
            /\ Goto(p, "next")
    /\ UNCHANGED <<sheets, lock, call, loc, todo, nextId>>

\* (mutant) the ranges are moved in increasing row order
SweepCallsForward(from, to, del) ==
    LET rows == getRangesInUse(sheets[from])
    IN [i \in 1..Len(rows) |->
            Call(IF del THEN "move" ELSE "copy",
                 Range(from, rows[i], getLastColumn(sheets[from])), to,
                 FALSE, FALSE, TRUE, TRUE)]

\* the calls sweep makes, one per range in use, with the callee's default arguments
SweepCalls(from, to, del) ==
    LET rows == IF del THEN Reverse(getRangesInUse(sheets[from]))
                ELSE getRangesInUse(sheets[from])
    IN [i \in 1..Len(rows) |->
            Call(IF del THEN "move" ELSE "copy",
                 Range(from, rows[i], getLastColumn(sheets[from])), to,
                 FALSE, FALSE, TRUE, TRUE)]

\* sweep: getRangesInUse(sheetFrom), then forEach over the ranges
SweepRanges(p) ==
    /\ pc[p] = "s_ranges"
    /\ todo' = [todo EXCEPT ![p] =
                    SweepCalls(call[p].range.sheet, call[p].sheet, call[p].del) \o @]
    /\ Goto(p, "next")
    /\ UNCHANGED <<sheets, lock, call, loc, ops, nextId>>

(***************************************************************************)
(* Tables and scripts the specifications start from                        *)
(***************************************************************************)
Header == <<"Timestamp", "Name">>

\* a sheet holding the given rows (values, checkbox columns), ids from base + 1
Sheet(rs, frozen, base) ==
    [rows |-> [i \in 1..Len(rs) |-> Row(base + i, rs[i][1], rs[i][2])], frozen |-> frozen]

Plain(v) == <<v, {}>>

\* the stored digest cell of a row appended with addDigest
WithDigest(v) == v \o <<getDigest(v, 1)>>

Blanks(n) == [i \in 1..n |-> Plain(<<>>)]

InitCommon ==
    /\ lock = 0
    /\ pc = [p \in Procs |-> "next"]
    /\ call = [p \in Procs |-> NoCall]
    /\ loc = [p \in Procs |-> Loc0]
    /\ ops = [p \in Procs |-> <<>>]
    /\ nextId = 2 * IdBase + 1

\* Two form-submit triggers run the same handler on two rows of the response sheet.
Init ==
    /\ InitCommon
    /\ \E first \in {<<"t1", "alice">>, <<>>}, second \in {"alice", "bob"}, spare \in 0..1 :
          sheets = [n \in Names |->
                      IF n = "src"
                      THEN Sheet(<<Plain(Header), Plain(first), Plain(<<"t2", second>>)>>
                                    \o Blanks(1), 1, 0)
                      ELSE Sheet(<<Plain(Header), Plain(WithDigest(<<"t0", "alice">>))>>
                                    \o Blanks(spare), 1, IdBase)]
    /\ \E fn \in {"copy", "move"}, digest \in BOOLEAN, cb \in BOOLEAN,
          useLock \in BOOLEAN, ign \in BOOLEAN :
          todo = [p \in Procs |->
                    <<Call(fn, Range("src", p + 1, 2), "dst", digest, cb, useLock, ign)>>]
    /\ sheets0 = sheets

Step(p) ==
    \/ StartCall(p)
    \/ MoveAcquire(p)
    \/ CopyAcquire(p)
    \/ LockTimeout(p)
    \/ CheckDuplicate(p)
    \/ PlaceRead(p)
    \/ PlaceInsert(p)
    \/ Transfer(p)
    \/ Digest(p)
    \/ Notify(p)
    \/ CopyRelease(p)
    \/ MoveDelete(p)
    \/ MoveRelease(p)
    \/ Fail(p)

Next == \E p \in Procs : Step(p)

Spec == Init /\ [][Next]_vars

(***************************************************************************)
(* Placement: one execution appends a row to a destination table of any    *)
(* shape, under either policy.                                             *)
(***************************************************************************)
\* kinds of row of a generated table: blank, data, data with an empty first
\* column, and a row whose only content is an unticked checkbox
RowKinds ==
    {Plain(<<>>), Plain(<<"t", "a">>), Plain(<<"", "a">>), <<(<<"", "FALSE">>), {2}>>}

Tables(maxRows) ==
    UNION {[1..n -> RowKinds] : n \in 1..maxRows}

InitPlace ==
    /\ InitCommon
    /\ \E t \in Tables(MaxRows) : \E frozen \in 0..MaxFrozen :
          /\ frozen < Len(t)
          /\ sheets = [n \in Names |->
                        IF n = "src"
                        THEN Sheet(<<Plain(Header), Plain(<<"t1", "alice">>),
                                     Plain(<<"t2", "bob">>)>>, 1, 0)
                        ELSE Sheet(t, frozen, IdBase)]
    /\ \E ign \in BOOLEAN :
          todo = [p \in Procs |->
                    IF p = 1
                    THEN <<Call("copy", Range("src", 2, 2), "dst", FALSE, FALSE, TRUE, ign)>>
                    ELSE <<>>]
    /\ sheets0 = sheets

NextPlace ==
    \/ StartCall(1)
    \/ CopyAcquire(1)
    \/ CheckDuplicate(1)
    \/ PlaceRead(1)
    \/ PlaceInsert(1)
    \/ Transfer(1)
    \/ Digest(1)
    \/ Notify(1)
    \/ CopyRelease(1)

SpecPlace == InitPlace /\ [][NextPlace]_vars

(***************************************************************************)
(* Successive appends: one execution appends rows, one after the other,    *)
(* to a table without data rows, its frozen rows titled or left blank.     *)
(***************************************************************************)
\* the script appends the two submissions in turn, n calls in all
Appends(n, digest) ==
    [i \in 1..n |->
        Call("copy", Range("src", 2 + ((i + 1) % 2), 2), "dst", digest, FALSE, TRUE, TRUE)]

InitAppend ==
    /\ InitCommon
    /\ \E rows \in 1..MaxRows, frozen \in 0..MaxFrozen, titled \in BOOLEAN :
          /\ frozen < rows
          /\ sheets = [n \in Names |->
                        IF n = "src"
                        THEN Sheet(<<Plain(Header), Plain(<<"t1", "alice">>),
                                     Plain(<<"t2", "bob">>)>>, 1, 0)
                        ELSE Sheet([i \in 1..rows |->
                                       IF titled /\ i <= frozen
                                       THEN Plain(Header) ELSE Plain(<<>>)],
                                   frozen, IdBase)]
    /\ \E n \in 1..MaxAppends, digest \in BOOLEAN :
          todo = [p \in Procs |-> IF p = 1 THEN Appends(n, digest) ELSE <<>>]
    /\ sheets0 = sheets

SpecAppend == InitAppend /\ [][NextPlace]_vars

(***************************************************************************)
(* Sweep: one execution sweeps a source table of any shape.                *)
(***************************************************************************)
InitSweep ==
    /\ InitCommon
    /\ \E t \in Tables(MaxSweepRows + 1) : \E frozen \in 0..1 :
          /\ frozen < Len(t)
          /\ sheets = [n \in Names |->
                        IF n = "src"
                        THEN Sheet(t, frozen, 0)
                        ELSE Sheet(<<Plain(Header), Plain(<<"t0", "alice">>), Plain(<<>>)>>,
                                   1, IdBase)]
    /\ \E del \in BOOLEAN :
          todo = [p \in Procs |->
                    IF p = 1
                    THEN <<[Call("sweep", Range("src", 1, 1), "dst", FALSE, FALSE, TRUE, TRUE)
                                EXCEPT !.del = del]>>
                    ELSE <<>>]
    /\ sheets0 = sheets

NextSweep ==
    \/ StartCall(1)
    \/ SweepRanges(1)
    \/ MoveAcquire(1)
    \/ CopyAcquire(1)
    \/ CheckDuplicate(1)
    \/ PlaceRead(1)
    \/ PlaceInsert(1)
    \/ Transfer(1)
    \/ Digest(1)
    \/ Notify(1)
    \/ CopyRelease(1)
    \/ MoveDelete(1)
    \/ MoveRelease(1)

SpecSweep == InitSweep /\ [][NextSweep]_vars

(***************************************************************************)
(* Duplicate check: one execution appends a row with its digest and then   *)
(* asks whether a candidate row is a duplicate.                            *)
(***************************************************************************)
\* answers of a form, some holding the character join() separates values with
Answers == {"", "a", "a,a"}

InitDup ==
    /\ InitCommon
    /\ \E a1 \in Answers, a2 \in Answers, b1 \in Answers, b2 \in Answers,
          t \in {"t1", "t2"}, spare \in 0..1 :
          sheets = [n \in Names |->
                      IF n = "src"
                      THEN Sheet(<<Plain(Header), Plain(<<"t1", a1, a2>>),
                                   Plain(<<t, b1, b2>>)>>, 1, 0)
                      ELSE Sheet(<<Plain(Header)>> \o Blanks(spare), 1, IdBase)]
    /\ todo = [p \in Procs |->
                IF p = 1
                THEN <<Call("copy", Range("src", 2, 3), "dst", TRUE, FALSE, TRUE, TRUE),
                       Call("isDuplicate", Range("src", 3, 3), "dst", TRUE, FALSE, FALSE, FALSE)>>
                ELSE <<>>]
    /\ sheets0 = sheets

NextDup ==
    \/ StartCall(1)
    \/ CopyAcquire(1)
    \/ CheckDuplicate(1)
    \/ PlaceRead(1)
    \/ PlaceInsert(1)
    \/ Transfer(1)
    \/ Digest(1)
    \/ Notify(1)
    \/ CopyRelease(1)
    \/ IsDuplicateCall(1)

SpecDup == InitDup /\ [][NextDup]_vars

(***************************************************************************)
(* Duplicate check on its own: one execution asks whether a candidate row  *)
(* is a duplicate in a table of any shape, directly with any last and      *)
(* skip, or through an append that was given a duplicate callback.         *)
(***************************************************************************)
\* rows of a generated table: blank, a row with its digest cell, the same digest
\* one column further right, and a row whose digest cell was made with skip = 0
CheckKinds ==
    {Plain(<<>>),
     Plain(WithDigest(<<"t0", "alice">>)),
     Plain(<<"t0", "alice", "", getDigest(<<"t0", "alice">>, 1)>>),
     Plain(<<"t0", "bob", getDigest(<<"t1", "alice">>, 0)>>)}

InitCheck ==
    /\ InitCommon
    /\ \E n \in 1..MaxCheckRows : \E t \in [1..n -> CheckKinds] :
          sheets = [m \in Names |->
                      IF m = "src"
                      THEN Sheet(<<Plain(Header), Plain(<<"t1", "alice">>),
                                   Plain(<<"t1", "carol">>)>>, 1, 0)
                      ELSE Sheet(t, 0, IdBase)]
    /\ \E fn \in {"isDuplicate", "copy"}, row \in 2..3, useDigest \in BOOLEAN,
          last \in {NullLast} \cup 0..(MaxCheckRows + 1), skip \in 0..2 :
          /\ fn = "copy" => last = NullLast /\ skip = 1
          /\ todo = [p \in Procs |->
                       IF p = 1
                       THEN <<[Call(fn, Range("src", row, 2), "dst", useDigest, TRUE, TRUE, TRUE)
                                  EXCEPT !.last = last, !.skip = skip]>>
                       ELSE <<>>]
    /\ sheets0 = sheets

SpecCheck == InitCheck /\ [][NextDup]_vars

(***************************************************************************)
(* Move: one execution moves a row of the response sheet while another     *)
(* execution may be copying a row into the same destination.               *)
(***************************************************************************)
InitMove ==
    /\ InitCommon
    /\ \E second \in {"alice", "bob"}, spare \in 0..1 :
          sheets = [n \in Names |->
                      IF n = "src"
                      THEN Sheet(<<Plain(Header), Plain(<<"t1", "alice">>),
                                   Plain(<<"t2", second>>)>> \o Blanks(1), 1, 0)
                      ELSE Sheet(<<Plain(Header), Plain(WithDigest(<<"t0", "alice">>))>>
                                    \o Blanks(spare), 1, IdBase)]
    /\ \E row \in 2..3, digest \in BOOLEAN, cb \in BOOLEAN, useLock \in BOOLEAN,
          ign \in BOOLEAN, other \in BOOLEAN :
          todo = [p \in Procs |->
                    IF p = 1
                    THEN <<Call("move", Range("src", row, 2), "dst", digest, cb, useLock, ign)>>
                    ELSE IF other
                    THEN <<Call("copy", Range("src", 2, 2), "dst", FALSE, FALSE, TRUE, TRUE)>>
                    ELSE <<>>]
    /\ sheets0 = sheets

SpecMove == InitMove /\ [][Next]_vars

(***************************************************************************)
(* Blank test: one execution asks whether a row of any content is empty.   *)
(***************************************************************************)
\* a cell: its value and whether it has checkbox validation
CellKinds ==
    {<<"", FALSE>>, <<"a", FALSE>>, <<"FALSE", FALSE>>, <<"FALSE", TRUE>>, <<"TRUE", TRUE>>}

\* the row (values, checkbox columns) made of the given cells
RowOfCells(cells) ==
    <<[c \in 1..Len(cells) |-> cells[c][1]], {c \in 1..Len(cells) : cells[c][2]}>>

InitEmpty ==
    /\ InitCommon
    /\ \E cells \in [1..(NumCols - 1) -> CellKinds] :
          sheets = [n \in Names |->
                      IF n = "src"
                      THEN Sheet(<<Plain(Header), RowOfCells(cells)>>, 1, 0)
                      ELSE Sheet(<<Plain(Header)>>, 1, IdBase)]
    /\ \E ignoreCheckbox \in BOOLEAN :
          todo = [p \in Procs |->
                    IF p = 1
                    THEN <<Call("isRangeEmpty", Range("src", 2, NumCols), "dst",
                                FALSE, FALSE, FALSE, ignoreCheckbox)>>
                    ELSE <<>>]
    /\ sheets0 = sheets

NextEmpty ==
    \/ StartCall(1)
    \/ IsRangeEmptyCall(1)

SpecEmpty == InitEmpty /\ [][NextEmpty]_vars

(***************************************************************************)
(* Notified append: one execution appends a row with its digest and then   *)
(* appends a second row with a duplicate callback.                         *)
(***************************************************************************)
InitNotify ==
    /\ InitCommon
    /\ \E a1 \in Answers, a2 \in Answers, b1 \in Answers, b2 \in Answers,
          t \in {"t1", "t2"}, spare \in 0..1 :
          sheets = [n \in Names |->
                      IF n = "src"
                      THEN Sheet(<<Plain(Header), Plain(<<"t1", a1, a2>>),
                                   Plain(<<t, b1, b2>>)>>, 1, 0)
                      ELSE Sheet(<<Plain(Header)>> \o Blanks(spare), 1, IdBase)]
    /\ \E cb \in BOOLEAN :
          todo = [p \in Procs |->
                    IF p = 1
                    THEN <<Call("copy", Range("src", 2, 3), "dst", TRUE, FALSE, TRUE, TRUE),
                           Call("copy", Range("src", 3, 3), "dst", TRUE, cb, TRUE, TRUE)>>
                    ELSE <<>>]
    /\ sheets0 = sheets

SpecNotify == InitNotify /\ [][NextPlace]_vars

(***************************************************************************)
(* Sheets of the spreadsheet by name: getPeriodicSheet, getOrCreateSheet.  *)
(* Here the variable sheets maps every sheet name of the spreadsheet to    *)
(* its sheet, which carries its identity (tab) and the identity of the     *)
(* sheet it was copied from (from, 0 if none).                             *)
(***************************************************************************)
\* the value of templateName that stands for null
NullName == ""

MonthNames ==
    <<"January", "February", "March", "April", "May", "June",
      "July", "August", "September", "October", "November", "December">>

\* month.substr(0,3).toUpperCase() for each month name
Abbreviations ==
    <<"JAN", "FEB", "MAR", "APR", "MAY", "JUN", "JUL", "AUG", "SEP", "OCT", "NOV", "DEC">>

\* year.toString().slice(-2), for a year of at least two digits
LastTwoDigits(year) == ToString((year % 100) \div 10) \o ToString(year % 10)

\* the name of month monthNum (0..11) of a year
MonthlyName(abbreviated, monthNum, year) ==
    IF abbreviated
    THEN Abbreviations[monthNum + 1] \o LastTwoDigits(year)
    ELSE MonthNames[monthNum + 1] \o " " \o ToString(year)

\* getMonthlySheetName, new Date() being in month (0..11) of year
getMonthlySheetName(abbreviated, shift, month, year) ==
    IF month + shift < 0 THEN MonthlyName(abbreviated, 11, year - 1)
    ELSE IF month + shift > 11 THEN MonthlyName(abbreviated, 0, year + 1)
    ELSE MonthlyName(abbreviated, month + shift, year)

\* getYearlySheetName returns a number, which names the sheet by its digits
getYearlySheetName(shift, year) == ToString(year + shift)

\* arguments of a call of getPeriodicSheet or getOrCreateSheet, with the date
\* new Date() gives during the call
SheetCall(fn, period, abbreviated, shift, templateName, sheetName, month, year) ==
    [fn |-> fn, period |-> period, abbreviated |-> abbreviated, shift |-> shift,
     templateName |-> templateName, sheetName |-> sheetName, month |-> month, year |-> year]

\* the sheet name getPeriodicSheet computes for call c
PeriodName(c) ==
    IF c.period = "month" THEN getMonthlySheetName(c.abbreviated, c.shift, c.month, c.year)
    ELSE getYearlySheetName(c.shift, c.year)

\* the name the host gives to a copy of sheet template: "Copy of " and the name,
\* followed by a number when that name is taken
CopyName(ss, template) ==
    IF ~(("Copy of " \o template) \in DOMAIN ss) THEN "Copy of " \o template
    ELSE "Copy of " \o template \o " " \o
            ToString(Min({k \in 1..Cardinality(DOMAIN ss) :
                            ~(("Copy of " \o template \o " " \o ToString(k)) \in DOMAIN ss)}))

\* ss.getSheetByName(template).copyTo(ss)
copyTo(ss, template, id) ==
    [n \in DOMAIN ss \cup {CopyName(ss, template)} |->
        IF n = CopyName(ss, template)
        THEN [ss[template] EXCEPT !.tab = id, !.from = ss[template].tab]
        ELSE ss[n]]

\* sheet.setName(name), sheet being the one now called old
setName(ss, old, name) ==
    [n \in (DOMAIN ss \ {old}) \cup {name} |-> IF n = name THEN ss[old] ELSE ss[n]]

\* ss.insertSheet(name): a new sheet without content
insertSheet(ss, name, id) ==
    [n \in DOMAIN ss \cup {name} |->
        IF n = name THEN [rows |-> <<BlankRow(id)>>, frozen |-> 0, tab |-> id, from |-> 0]
        ELSE ss[n]]

\* getNewSheetFromTemplate raises: getSheetByName(template) is null
NewFromTemplateThrows(ss, template) == ~(template \in DOMAIN ss)

\* the spreadsheet after getNewSheetFromTemplate; the sheet it returns is the one
\* then called "Copy of " + template
getNewSheetFromTemplate(ss, template, id) == copyTo(ss, template, id)

\* getPeriodicSheet, as a whole
PeriodicSheet(p) ==
    /\ pc[p] = "p_sheet"
    /\ LET name == PeriodName(call[p])
           copied == getNewSheetFromTemplate(sheets, call[p].templateName, nextId)
       IN IF ~(call[p].period \in {"month", "year"})
          THEN Goto(p, "failed") /\ UNCHANGED <<sheets, ops, nextId>>
          ELSE IF name \in DOMAIN sheets
          THEN /\ Log(p, Event("getPeriodicSheet", name, 0, sheets[name].tab))
               /\ Goto(p, "next")
               /\ UNCHANGED <<sheets, nextId>>
          ELSE IF call[p].templateName # NullName
          THEN IF NewFromTemplateThrows(sheets, call[p].templateName)
               THEN Goto(p, "failed") /\ UNCHANGED <<sheets, ops, nextId>>
               ELSE /\ sheets' = setName(copied, "Copy of " \o call[p].templateName, name)
                    /\ nextId' = nextId + 1
                    /\ ops' = [ops EXCEPT ![p] = @ \o
                                <<Event("createSheet", CopyName(sheets, call[p].templateName),
                                        0, nextId),
                                  Event("getPeriodicSheet", name, 0,
                                        copied["Copy of " \o call[p].templateName].tab)>>]
                    /\ Goto(p, "next")
          ELSE /\ sheets' = insertSheet(sheets, name, nextId)
               /\ nextId' = nextId + 1
               /\ ops' = [ops EXCEPT ![p] = @ \o
                            <<Event("createSheet", name, 0, nextId),
                              Event("getPeriodicSheet", name, 0, nextId)>>]
               /\ Goto(p, "next")
    /\ UNCHANGED <<lock, call, loc, todo>>

\* getOrCreateSheet, as a whole
OrCreateSheet(p) ==
    /\ pc[p] = "o_sheet"
    /\ LET copied == getNewSheetFromTemplate(sheets, call[p].templateName, nextId)
       IN IF call[p].sheetName \in DOMAIN sheets
          THEN /\ Log(p, Event("getOrCreateSheet", call[p].sheetName, 0,
                               sheets[call[p].sheetName].tab))
               /\ Goto(p, "next")
               /\ UNCHANGED <<sheets, nextId>>
          ELSE IF NewFromTemplateThrows(sheets, call[p].templateName)
          THEN Goto(p, "failed") /\ UNCHANGED <<sheets, ops, nextId>>
          ELSE /\ sheets' = copied
               /\ nextId' = nextId + 1
               /\ ops' = [ops EXCEPT ![p] = @ \o
                            <<Event("createSheet", CopyName(sheets, call[p].templateName),
                                    0, nextId),
                              Event("getOrCreateSheet", "Copy of " \o call[p].templateName, 0,
                                    copied["Copy of " \o call[p].templateName].tab)>>]
               /\ Goto(p, "next")
    /\ UNCHANGED <<lock, call, loc, todo>>

\* years new Date() is in; the two-digit form of the first has a leading zero
Years == {2000, 2020}

\* a spreadsheet with a data sheet and, or not, the template sheet; the script
\* calls getPeriodicSheet twice in the same month, getOrCreateSheet twice, or
\* getOrCreateSheet and then getPeriodicSheet twice
InitSheets ==
    /\ InitCommon
    /\ \E hasTemplate \in BOOLEAN :
          sheets = [n \in {"Data"} \cup (IF hasTemplate THEN {"Template"} ELSE {}) |->
                      IF n = "Data"
                      THEN [rows |-> <<Row(1, Header, {}), Row(2, <<"t0", "alice">>, {})>>,
                            frozen |-> 1, tab |-> 1, from |-> 0]
                      ELSE [rows |-> <<Row(3, Header, {})>>,
                            frozen |-> 1, tab |-> 2, from |-> 0]]
    /\ \E script \in {"periodic", "orCreate", "both"},
          period \in {"month", "year", "week"}, abbreviated \in BOOLEAN,
          shift \in (0 - MaxShift)..MaxShift, templateName \in {NullName, "Template"},
          sheetName \in {"Data", "Responses"}, month \in 0..11, year \in Years :
          LET periodic == SheetCall("getPeriodicSheet", period, abbreviated, shift,
                                    templateName, "", month, year)
              orCreate == SheetCall("getOrCreateSheet", "", TRUE, 0,
                                    "Template", sheetName, month, year)
          IN /\ script = "orCreate"
                  => /\ period = "month" /\ abbreviated /\ shift = 0
                     /\ templateName = "Template" /\ month = 0 /\ year = 2020
             /\ script = "periodic" => sheetName = "Data"
             /\ todo = [p \in Procs |->
                          IF p # 1 THEN <<>>
                          ELSE IF script = "periodic" THEN <<periodic, periodic>>
                          ELSE IF script = "orCreate" THEN <<orCreate, orCreate>>
                          ELSE <<orCreate, periodic, periodic>>]
    /\ sheets0 = sheets

NextSheets ==
    \/ StartCall(1)
    \/ PeriodicSheet(1)
    \/ OrCreateSheet(1)

SpecSheets == InitSheets /\ [][NextSheets]_vars


(***************************************************************************)
(* Progress: two executions append or move rows with useLock=true, the     *)
(* first of them possibly twice; no host call raises and no wait for the   *)
(* lock runs out, and every execution that can take a step eventually      *)
(* takes one.                                                              *)
(***************************************************************************)
InitLive ==
    /\ InitCommon
    /\ \E second \in {"alice", "bob"}, spare \in 0..1 :
          sheets = [n \in Names |->
                      IF n = "src"
                      THEN Sheet(<<Plain(Header), Plain(<<"t1", "alice">>),
                                   Plain(<<"t2", second>>)>> \o Blanks(1), 1, 0)
                      ELSE Sheet(<<Plain(Header), Plain(WithDigest(<<"t0", "alice">>))>>
                                    \o Blanks(spare), 1, IdBase)]
    /\ \E fn \in [Procs -> {"copy", "move"}], digest \in BOOLEAN, cb \in BOOLEAN,
          ign \in BOOLEAN, again \in BOOLEAN :
          todo = [p \in Procs |->
                    <<Call(fn[p], Range("src", p + 1, 2), "dst", digest, cb, TRUE, ign)>>
                    \o (IF p = 1 /\ again
                        THEN <<Call("copy", Range("src", 2, 2), "dst", digest, cb, TRUE, ign)>>
                        ELSE <<>>)]
    /\ sheets0 = sheets

StepLive(p) ==
    \/ StartCall(p)
    \/ MoveAcquire(p)
    \/ CopyAcquire(p)
    \/ CheckDuplicate(p)
    \/ PlaceRead(p)
    \/ PlaceInsert(p)
    \/ Transfer(p)
    \/ Digest(p)
    \/ Notify(p)
    \/ CopyRelease(p)
    \/ MoveDelete(p)
    \/ MoveRelease(p)

NextLive == \E p \in Procs : StepLive(p)

SpecLive == InitLive /\ [][NextLive]_vars /\ \A p \in Procs : WF_vars(StepLive(p))

(***************************************************************************)
(* Properties                                                              *)
(***************************************************************************)
Events(p, op) == {i \in 1..Len(ops[p]) : ops[p][i].op = op}
EventIds(p, op) == {ops[p][i].id : i \in Events(p, op)}

\* the call of p in progress, or its last one, is an append with these options
Appending(p) == call[p].fn \in {"copy", "move"}
Finished(p) == pc[p] \in {"done", "failed"}

\* C1: with useLock=true and the Append policy (ignoreCheckboxes=true), two
\* concurrent appends to the same table never get the same destination row: every
\* call writes only into the physical row it reserved itself, so the rows written
\* by two calls are distinct in every interleaving.
C1_LockSerialization ==
    \A p \in Procs : \A q \in Procs \ {p} :
        (Appending(p) /\ Appending(q) /\ call[p].useLock /\ call[q].useLock
            /\ call[p].ign /\ call[q].ign /\ call[p].sheet = call[q].sheet)
        => /\ EventIds(p, "write") \subseteq EventIds(p, "insert")
           /\ EventIds(p, "write") \cap EventIds(q, "write") = {}

\* both locked appends have written their rows
C1_Witness ==
    /\ \A p \in Procs : call[p].useLock /\ call[p].ign /\ pc[p] = "done"
                        /\ Cardinality(EventIds(p, "write")) = 1
    /\ EventIds(1, "write") # EventIds(2, "write")

\* C2: a move that failed has not deleted its source row: the row it was to move
\* is still in the source table with its values, the failed call made no deleteRow,
\* and no step of a move other than its deleteRow changes the source table.
C2_FailedMoveKeepsSource ==
    /\ [](\A p \in Procs :
            (pc[p] = "failed" /\ call[p].fn = "move")
            => /\ Events(p, "delete") = {}
               /\ \E i \in 1..Len(sheets["src"].rows) : sheets["src"].rows[i].id = p + 1)
    /\ [][\A p \in Procs :
            (pc[p] # pc'[p] /\ pc[p] # "m_delete") => sheets'["src"] = sheets["src"]]_vars

\* a move failed after its row was written to the destination
C2_Witness ==
    \E p \in Procs :
        /\ pc[p] = "failed" /\ call[p].fn = "move"
        /\ Events(p, "write") # {}

\* C3: no finished call (returned or failed) still holds the lock.
C3_LockReleasedWhenFinished ==
    \A p \in Procs : Finished(p) => lock # p

\* the step in which getFirstEmptyRow of execution p inserts the reserved row
\* and returns; the unprimed sheets are the table the placement was computed on
Places(p) == pc[p] = "g_insert" /\ pc'[p] = "c_copy"

\* blank rows between the first unfrozen row and the last row with content
Gaps(s) == {r \in (getFrozenRows(s) + 1)..getLastRow(s) : isBlank(s, r)}

\* the last row, below the first unfrozen row, whose first column is not empty;
\* the first unfrozen row (or the last row with content, if that is earlier) if none
LastInColumn1(s) ==
    Max({r \in (getFrozenRows(s) + 2)..getLastRow(s) : s.rows[r].v[1] # ""}
            \cup {Min({getFrozenRows(s) + 1, getLastRow(s)})})

C8_AppendPolicy ==
    [][\A p \in Procs :
        /\ (Places(p) /\ call[p].ign)
            => /\ loc'[p].firstEmpty = getLastRow(Dst(p)) + 1
               /\ getMaxRows(sheets'[call[p].sheet]) = getMaxRows(Dst(p)) + 1
               /\ loc'[p].firstEmpty <= getMaxRows(sheets'[call[p].sheet])
               /\ isBlank(sheets'[call[p].sheet], loc'[p].firstEmpty)
        /\ (call[p].ign /\ pc[p] \in {"g_read", "g_insert"}) => pc'[p] # "failed"]_vars

\* the Append policy has placed a row beyond the rows that were allocated
C8_Witness ==
    /\ pc[1] = "c_copy" /\ call[1].ign
    /\ loc[1].firstEmpty = loc[1].max + 1
    /\ loc[1].firstEmpty = getMaxRows(sheets["dst"])

\* the row placement has returned to p lies below the frozen rows
BelowFrozen(p) == loc[p].firstEmpty >= getFrozenRows(Dst(p)) + 1 /\ loc[p].firstEmpty >= 1

\* C9: for every table and both policies the row returned by placement is at
\* least frozenRows + 1 (and at least 1): a frozen row is never the target.
C9_NeverFrozen ==
    \A p \in Procs : pc[p] = "c_copy" => BelowFrozen(p)

\* the table the current placement of p was computed on had no data row at all
NoDataRows(p) == getLastRow(Dst(p)) <= getFrozenRows(Dst(p)) /\ Events(p, "write") = {}

\* C10: for a table without any data row, placement under either policy returns
\* the first unfrozen row, frozenRows + 1, and does not raise.
C10_EmptyTable ==
    \A p \in Procs :
        NoDataRows(p)
        => /\ pc[p] # "failed"
           /\ pc[p] = "c_copy" => loc[p].firstEmpty = getFrozenRows(Dst(p)) + 1

\* the k-th row execution p had reserved
Reserved(p, k) ==
    ops[p][CHOOSE i \in Events(p, "insert") :
                Cardinality({j \in Events(p, "insert") : j <= i}) = k].row

\* C7: under the Append policy successive appends to an initially empty table
\* are allocated the rows frozenRows + 1, frozenRows + 2, ... in that order.
C7_Monotonic ==
    \A p \in Procs :
        (call[p].ign /\ getLastRow(sheets0[call[p].sheet]) <= getFrozenRows(sheets0[call[p].sheet]))
        => \A k \in 1..Cardinality(Events(p, "insert")) :
                Reserved(p, k) = getFrozenRows(sheets0[call[p].sheet]) + k

\* rows of s, among those at the given places, whose values are v
Count(s, places, v) == Cardinality({i \in places : s.rows[i].v = v})

InUse0 == {getRangesInUse(sheets0["src"])[i] : i \in 1..Len(getRangesInUse(sheets0["src"]))}
NewRows(s) == {i \in 1..Len(s.rows) : s.rows[i].id > 2 * IdBase}

\* C5: a finished sweep with deleteFromSource=true leaves none of the source's
\* non-empty unfrozen rows in the source, whatever their places and the gaps
\* between them, and the rows it added to the destination hold the values of each
\* of those rows exactly once.
C5_SweepComplete ==
    (pc[1] = "done" /\ call[1].fn = "move" /\ call[1].range.sheet = "src")
    => /\ getRangesInUse(sheets["src"]) = <<>>
       /\ \A i \in InUse0 : \A j \in 1..Len(sheets["src"].rows) :
            sheets["src"].rows[j].id # sheets0["src"].rows[i].id
       /\ Cardinality(NewRows(sheets["dst"])) = Cardinality(InUse0)
       /\ \A i \in InUse0 :
            Count(sheets["dst"], NewRows(sheets["dst"]), sheets0["src"].rows[i].v)
                = Count(sheets0["src"], InUse0, sheets0["src"].rows[i].v)

\* three non-empty rows with a blank row between them have been swept
C5_Witness ==
    /\ pc[1] = "done" /\ call[1].fn = "move"
    /\ Cardinality(InUse0) = 3
    /\ \E g \in 1..Len(sheets0["src"].rows) :
          /\ isBlank(sheets0["src"], g)
          /\ \E i \in InUse0 : i < g
          /\ \E i \in InUse0 : i > g
    /\ Cardinality(NewRows(sheets["dst"])) = 3

\* the appended row and the candidate, as the script was given them
Appended0 == sheets0["src"].rows[2].v
Candidate0 == sheets0["src"].rows[3].v

\* C4: after a row was appended with addDigest=true, isDuplicate in digest mode
\* answers true for a candidate of the same width that agrees with it on all
\* values after the first column, and false for a candidate that differs from
\* every appended row in some value after the first column.
C4_RoundTrip ==
    (pc[1] = "done" /\ call[1].fn = "isDuplicate")
    => /\ Slice(Candidate0, 1) = Slice(Appended0, 1) => loc[1].isDup = "true"
       /\ Slice(Candidate0, 1) # Slice(Appended0, 1) => loc[1].isDup = "false"

\* the candidate row of the call of p, and the last row its check reads
CandidateOf(p) == getValues(sheets0[call[p].range.sheet], call[p].range.row, 1, call[p].range.n)
CheckedRows(p) ==
    IF call[p].last = NullLast THEN 1..getLastRow(sheets0[call[p].sheet]) ELSE 1..call[p].last

\* rows of the destination whose cell in column col holds the digest of the candidate
DigestRows(p, col) ==
    {r \in 1..Len(sheets0[call[p].sheet].rows) :
        sheets0[call[p].sheet].rows[r].v[col] = getDigest(CandidateOf(p), call[p].skip)}

\* C11: isDuplicate in digest mode returns true if and only if the digest of the
\* candidate (with the given skip) is the value of a cell of column numColumns + 1
\* in rows 1..last, last defaulting to the last row with content; a digest below
\* row last or in another column does not make it return true.
C11_DigestColumn ==
    \A p \in Procs :
        (call[p].fn = "isDuplicate" /\ call[p].digest /\ loc[p].isDup # "none")
        => (loc[p].isDup = "true"
                <=> DigestRows(p, call[p].range.n + 1) \cap CheckedRows(p) # {})

\* isDuplicate has answered false although the digest of the candidate is stored
\* below row last, and in the next column within rows 1..last
C11_Witness ==
    /\ call[1].fn = "isDuplicate" /\ call[1].digest /\ loc[1].isDup = "false"
    /\ call[1].last = 1
    /\ 2 \in DigestRows(1, call[1].range.n + 1)
    /\ 1 \in DigestRows(1, call[1].range.n + 2)

\* C12: every duplicate check in raw mode (useDigest=false), made directly or by
\* an append with a duplicate callback and digest=false, raises and changes no
\* table.
C12_RawModeFails ==
    [][\A p \in Procs :
        ((pc[p] = "d_check" \/ (pc[p] = "c_dup" /\ call[p].cb))
            /\ ~call[p].digest /\ pc'[p] # pc[p])
        => pc'[p] = "failed" /\ sheets' = sheets]_vars

\* the digest cell the append of the first row has stored in the destination
StoredDigest(p) == sheets[call[p].sheet].rows[loc[p].destRow].v[loc[p].destCols]

\* C13: two rows that agree on every value after the first skip columns have the
\* same digest, whatever their skipped leading values; the digest cell stored for
\* an appended row is the digest of any such row, whatever the size of the table,
\* and a later check of such a candidate finds it.
C13_SkipOnly ==
    /\ \A skip \in 0..Len(Appended0) :
            Slice(Appended0, skip) = Slice(Candidate0, skip)
            => getDigest(Appended0, skip) = getDigest(Candidate0, skip)
    /\ (Events(1, "digest") # {} /\ Slice(Appended0, 1) = Slice(Candidate0, 1))
            => /\ StoredDigest(1) = getDigest(SubSeq(Candidate0, 1, loc[1].destCols - 1), 1)
               /\ loc[1].isDup # "false"

\* a candidate with another timestamp and the same answers was found by its digest
C13_Witness ==
    /\ pc[1] = "done" /\ loc[1].isDup = "true"
    /\ Appended0[1] # Candidate0[1]
    /\ Slice(Appended0, 1) = Slice(Candidate0, 1)
    /\ Len(sheets0["dst"].rows) = 2

\* the values of row v that lie in the range the append was given
Taken(v) == SubSeq(v, 1, loc[1].destCols - 1)

\* C14: two rows that differ after the skip are joined into different strings
\* and get different digests: the digest stored for the appended row is not the
\* digest of a candidate that differs from it after the first column.
C14_DistinctDigests ==
    Events(1, "digest") # {}
    => \A skip \in 0..Len(Taken(Appended0)) :
            Slice(Taken(Appended0), skip) # Slice(Taken(Candidate0), skip)
            => /\ Join(Slice(Taken(Appended0), skip)) # Join(Slice(Taken(Candidate0), skip))
               /\ skip = 1 => StoredDigest(1) # getDigest(Taken(Candidate0), 1)

\* the append of p has passed its notify step
Notified(p) == Appending(p) /\ pc[p] \in {"c_unlock", "m_delete", "m_unlock", "next", "done"}

\* C15: the callback of an append or move is invoked at most once, and once the
\* call has passed its notify step exactly once if and only if a callback was
\* supplied and the duplicate check found a duplicate; its argument is the
\* destination location (row written, n columns, n + 1 with a digest), and it
\* comes after the transfer and, with addDigest, after the digest cell was written.
C15_Notify ==
    \A p \in Procs :
        Appending(p)
        => /\ Cardinality(Events(p, "callback")) <= 1
           /\ loc[p].duplicate => call[p].cb
           /\ Events(p, "callback") # {} => loc[p].duplicate
           /\ Notified(p) => (Events(p, "callback") # {} <=> loc[p].duplicate)
           /\ \A i \in Events(p, "callback") :
                /\ ops[p][i].sheet = call[p].sheet
                /\ ops[p][i].id = call[p].range.n + (IF call[p].digest THEN 1 ELSE 0)
                /\ \E w \in Events(p, "write") : w < i /\ ops[p][w].row = ops[p][i].row
                /\ call[p].digest
                    => \E d \in Events(p, "digest") :
                            d < i /\ \E w \in Events(p, "write") : w < d

\* one call has notified its callback of a duplicate, the other, with the same
\* callback, has finished without a notification
C15_Witness ==
    \E p \in Procs : \E q \in Procs :
        /\ pc[p] = "done" /\ Events(p, "callback") # {} /\ Events(p, "digest") # {}
        /\ pc[q] = "done" /\ call[q].cb /\ Events(q, "callback") = {}

\* execution p goes through the statement "if(digest) destination = addDigest(destination)"
DigestStep(p) == pc[p] = "c_digest" /\ pc'[p] = "c_notify"

\* C16: with addDigest the digest step writes exactly one cell, the one after the
\* n value cells of the destination row, with the digest of those n values, the
\* first skipped; the location then spans n + 1 columns of the same row and
\* nothing else changes. Without addDigest the step writes nothing and the
\* location spans n columns.
C16_DigestStep ==
    [][\A p \in Procs :
        DigestStep(p)
        => /\ loc'[p].destRow = loc[p].destRow
           /\ \A m \in Names \ {call[p].sheet} : sheets'[m] = sheets[m]
           /\ IF call[p].digest
              THEN /\ sheets'[call[p].sheet] =
                        [Dst(p) EXCEPT !.rows[loc[p].destRow].v[call[p].range.n + 1] =
                            getDigest(SubSeq(Dst(p).rows[loc[p].destRow].v,
                                             1, call[p].range.n), 1)]
                   /\ loc'[p].destCols = call[p].range.n + 1
              ELSE /\ sheets' = sheets
                   /\ loc'[p].destCols = call[p].range.n]_vars

\* the digest cell was written after the two values of the row placed in row 3
C16_Witness ==
    /\ pc[1] = "c_notify" /\ call[1].digest /\ loc[1].destRow = 3
    /\ sheets["dst"].rows[3].v = Pad(<<"t1", "alice", getDigest(<<"t1", "alice">>, 1)>>)
    /\ loc[1].destCols = 3

\* C17: after a successful copyToFirstEmptyRow of a source row of width n into
\* another table, the n cells from column 1 of the destination row (the row
\* placement reserved) hold the values of the source row in the same order, and
\* the source table is as it was.
C17_Transfer ==
    \A p \in Procs :
        (pc[p] = "done" /\ call[p].fn = "copy" /\ call[p].range.sheet # call[p].sheet)
        => /\ loc[p].destRow = loc[p].firstEmpty
           /\ getValues(Dst(p), loc[p].destRow, 1, call[p].range.n) = CandidateOf(p)
           /\ Dst(p).rows[loc[p].destRow].id \in EventIds(p, "insert")
           /\ sheets[call[p].range.sheet] = sheets0[call[p].range.sheet]

\* the row was copied into a row reserved between rows that hold content
C17_Witness ==
    /\ pc[1] = "done" /\ call[1].fn = "copy"
    /\ loc[1].destRow < getLastRow(sheets["dst"])
    /\ sheets["dst"].rows[loc[1].destRow].v = Pad(<<"t1", "alice">>)
    /\ getMaxRows(sheets["dst"]) = MaxRows + 1

\* the move of p has deleted its row
Deleted(p) == call[p].fn = "move" /\ pc[p] \in {"m_unlock", "next", "done"}

\* C18: a move that has come to its end has placed the values of the row in the
\* destination and then deleted that row from the source, which has one row fewer
\* and holds the other rows as before; the deleteRow comes after the transfer,
\* the digest and the callback, and with useLock=true while the lock is held,
\* before its release.
C18_Move ==
    /\ [](\A p \in Procs :
            Deleted(p)
            => /\ Cardinality(Events(p, "delete")) = 1
               /\ sheets[call[p].range.sheet].rows
                    = RemoveAt(sheets0[call[p].range.sheet].rows, call[p].range.row)
               /\ call[p].useLock
                    => \E r \in NewRows(Dst(p)) :
                          getValues(Dst(p), r, 1, call[p].range.n) = CandidateOf(p)
               /\ \A d \in Events(p, "delete") :
                    /\ \E w \in Events(p, "write") : w < d
                    /\ call[p].digest => \E g \in Events(p, "digest") : g < d
                    /\ loc[p].duplicate => \E c \in Events(p, "callback") : c < d
                    /\ \A c \in Events(p, "callback") : c < d
                    /\ call[p].useLock
                        => /\ \E l \in Events(p, "lock") : l < d
                           /\ \A u \in Events(p, "unlock") : d < u)
    /\ [][\A p \in Procs :
            (pc[p] = "m_delete" /\ pc'[p] = "m_unlock" /\ call[p].useLock)
            => lock = p /\ lock' = p]_vars

\* a locked move with digest has notified a duplicate, deleted its row and
\* released the lock
C18_Witness ==
    /\ pc[1] = "done" /\ call[1].fn = "move" /\ call[1].useLock /\ call[1].digest
    /\ Events(1, "callback") # {} /\ Events(1, "unlock") # {}
    /\ Len(sheets["src"].rows) = Len(sheets0["src"].rows) - 1
    /\ pc[2] = "done" /\ Events(2, "write") # {}

\* rows of the destination that p reserved and never wrote
LeftReserved(p) ==
    {r \in 1..Len(Dst(p).rows) :
        /\ Dst(p).rows[r].id \in EventIds(p, "insert")
        /\ ~(Dst(p).rows[r].id \in EventIds(p, "write"))}

\* C19: a failed append or move leaves no reserved row behind in the
\* destination: the row is either placed or not there at all.
C19_NoPartialAppend ==
    \A p \in Procs :
        (pc[p] = "failed" /\ Appending(p)) => LeftReserved(p) = {}

\* p and q are appends into the same table made without the lock
Unlocked(p, q) ==
    /\ Appending(p) /\ Appending(q) /\ call[p].sheet = call[q].sheet
    /\ ~call[p].useLock /\ ~call[q].useLock

\* C20: with useLock=false two concurrent appends into one table can compute the
\* same destination row and overwrite each other. The transfer writes by row
\* index: when both calls have reserved a row for the same index, the transfer of
\* one writes the very row the other is about to write; and whenever two calls
\* have written the same physical row, they had computed the same index, the row
\* holds the values of one call only and a reserved row is left unwritten.
C20_UnlockedOverwrite ==
    /\ [][\A p \in Procs : \A q \in Procs \ {p} :
            (Unlocked(p, q) /\ pc[p] = "c_copy" /\ pc'[p] = "c_digest" /\ pc[q] = "c_copy"
                /\ loc[p].firstEmpty = loc[q].firstEmpty)
            => sheets'[call[q].sheet].rows[loc[q].firstEmpty].id
                    = ops'[p][Len(ops'[p])].id]_vars
    /\ [](\A p \in Procs : \A q \in Procs \ {p} :
            (Unlocked(p, q) /\ EventIds(p, "write") # {}
                /\ EventIds(p, "write") = EventIds(q, "write"))
            => /\ loc[p].firstEmpty = loc[q].firstEmpty
               /\ LeftReserved(p) \cup LeftReserved(q) # {}
               /\ Cardinality({r \in NewRows(Dst(p)) : RowHasContent(Dst(p).rows[r])}) <= 1)

\* both unlocked copies computed the same row and have finished; the values of
\* the first are nowhere in the destination: its row is lost
C20_Witness ==
    /\ \A p \in Procs : pc[p] = "done" /\ call[p].fn = "copy" /\ ~call[p].useLock
    /\ loc[1].firstEmpty = loc[2].firstEmpty
    /\ EventIds(1, "write") = EventIds(2, "write")
    /\ RowHasContent(sheets0["src"].rows[2]) /\ RowHasContent(sheets0["src"].rows[3])
    /\ \A r \in 1..Len(sheets["dst"].rows) :
            getValues(sheets["dst"], r, 1, 2) # getValues(sheets0["src"], 2, 1, 2)
    /\ \E r \in 1..Len(sheets["dst"].rows) :
            getValues(sheets["dst"], r, 1, 2) = getValues(sheets0["src"], 3, 1, 2)

\* the call of p has failed waiting for the lock it was told to use
TimedOut(p) == pc[p] = "failed" /\ call[p].useLock /\ Events(p, "lock") = {}

\* C21: a call with useLock=true that does not get the lock fails before its
\* duplicate check, placement, transfer and deletion: the step that raises the
\* timeout changes no table and the failed call has made no change to the source
\* or to the destination, which hold no row reserved by it.
C21_LockTimeout ==
    /\ [][\A p \in Procs :
            (pc[p] \in {"m_lock", "c_lock"} /\ pc'[p] = "failed")
            => /\ sheets' = sheets /\ lock' = lock
               /\ lock # 0 /\ lock # p]_vars
    /\ [](\A p \in Procs :
            TimedOut(p)
            => /\ ops[p] = <<>>
               /\ loc[p] = Loc0
               /\ \A n \in Names : \A r \in 1..Len(sheets[n].rows) :
                    sheets[n].rows[r].id \in EventIds(3 - p, "insert")
                        \/ \E i \in 1..Len(sheets0[n].rows) :
                                sheets0[n].rows[i].id = sheets[n].rows[r].id)

\* a move timed out on the lock while the other move went through
C21_Witness ==
    \E p \in Procs :
        /\ TimedOut(p) /\ call[p].fn = "move"
        /\ pc[3 - p] = "done" /\ Events(3 - p, "delete") # {}
        /\ \E r \in 1..Len(sheets["src"].rows) : sheets["src"].rows[r].id = p + 1

\* row r of s has content, all of it in cells with checkbox validation
CheckboxOnly(s, r) ==
    /\ RowHasContent(s.rows[r])
    /\ \A c \in 1..NumCols : s.rows[r].v[c] # "" => c \in s.rows[r].cb

\* C22: with ignoreCheckboxes set, a row whose only content is checkbox cells
\* counts as blank for placement: when the last row with content, below the
\* frozen rows, is such a row, the row returned is not beyond it.
C22_CheckboxRowEligible ==
    [][\A p \in Procs :
        (Places(p) /\ call[p].ign
            /\ getLastRow(Dst(p)) > getFrozenRows(Dst(p))
            /\ CheckboxOnly(Dst(p), getLastRow(Dst(p))))
        => loc'[p].firstEmpty <= getLastRow(Dst(p))]_vars

\* C26: isRangeEmpty with ignoreCheckbox=true answers true if and only if every
\* cell of the range is empty or has checkbox validation; with ignoreCheckbox=false
\* it answers true if and only if every cell is empty.
C26_IsRangeEmpty ==
    \A p \in Procs : \A e \in Events(p, "isRangeEmpty") :
        LET r == sheets0[ops[p][e].sheet].rows[ops[p][e].row]
        IN (ops[p][e].id = 1)
            <=> IF call[p].ign
                THEN \A c \in 1..NumCols : r.v[c] = "" \/ c \in r.cb
                ELSE \A c \in 1..NumCols : r.v[c] = ""

\* a row whose only content is an unticked and a ticked checkbox was reported
\* non-empty with ignoreCheckbox=false
C26_Witness ==
    /\ pc[1] = "done" /\ ~call[1].ign
    /\ CheckboxOnly(sheets0["src"], 2)
    /\ \E e \in Events(1, "isRangeEmpty") : ops[1][e].id = 0

\* the row of the source that the call of p was given, as it was at the start
Original(p) == sheets0[call[p].range.sheet].rows[call[p].range.row]

\* C27: after two concurrent moves with useLock=true of two distinct rows of one
\* source table have both completed, the source holds neither of the two rows and
\* the destination holds the values of each of them in exactly one new row.
C27_ConcurrentMoves ==
    (\A p \in Procs : /\ pc[p] = "done" /\ call[p].fn = "move" /\ call[p].useLock
                       /\ RowHasContent(Original(p)))
    => \A p \in Procs :
        /\ \A r \in 1..Len(sheets["src"].rows) : sheets["src"].rows[r].id # Original(p).id
        /\ Count(sheets["dst"], NewRows(sheets["dst"]), Original(p).v) = 1

\* execution p goes through the duplicate check of copyToFirstEmptyRow
CheckStep(p) == pc[p] = "c_dup" /\ pc'[p] = "g_read"

\* C28: the duplicate check of an append is made only with a callback and before
\* the row is reserved and written: it changes nothing, no reservation of the
\* call is pending, and it reports a duplicate only if the table, as it is before
\* the insertion, holds a row with the candidate's values after the first column.
C28_PreInsertionCheck ==
    [][\A p \in Procs :
        CheckStep(p)
        => /\ sheets' = sheets /\ ops' = ops
           /\ Cardinality(Events(p, "insert")) = Cardinality(Events(p, "write"))
           /\ loc'[p].duplicate => call[p].cb
           /\ loc'[p].duplicate
                => \E r \in 1..Len(Dst(p).rows) :
                        Slice(getValues(Dst(p), r, 1, call[p].range.n), 1)
                            = Slice(SrcValues(p), 1)]_vars

\* C29: in both policies placement inserts a blank row at the index it returns,
\* before any value is written into it: the table has one row more, the rows
\* before the index stay where they are, the rows at and after it are one lower,
\* and the transfer that follows writes into the inserted row.
C29_ReservationBeforeWrite ==
    [][\A p \in Procs :
        /\ Places(p)
            => LET old == Dst(p).rows
                   new == sheets'[call[p].sheet].rows
                   at  == loc'[p].firstEmpty
               IN /\ Len(new) = Len(old) + 1
                  /\ at \in 1..Len(new)
                  /\ ~RowHasContent(new[at]) /\ new[at].id = nextId
                  /\ \A r \in 1..Len(old) : new[IF r < at THEN r ELSE r + 1] = old[r]
                  /\ ~(nextId \in EventIds(p, "write"))
        /\ (pc[p] = "c_copy" /\ pc'[p] = "c_digest")
            => /\ ops'[p][Len(ops'[p])].id = ops[p][Len(ops[p])].id
               /\ ops[p][Len(ops[p])].op = "insert"
               /\ ~RowHasContent(Dst(p).rows[loc[p].firstEmpty])]_vars

\* FirstGap has reserved a row above rows that hold content, which moved down
C29_Witness ==
    /\ pc[1] = "c_copy" /\ ~call[1].ign
    /\ loc[1].firstEmpty < getLastRow(sheets["dst"])
    /\ getMaxRows(sheets["dst"]) = getMaxRows(sheets0["dst"]) + 1
    /\ isBlank(sheets["dst"], loc[1].firstEmpty)

\* the table has data below its frozen rows and no blank row among them
Dense(s) == getLastRow(s) > getFrozenRows(s) /\ Gaps(s) = {}

\* C30: under the FirstGap policy (ignoreCheckboxes=false), on a table with no
\* blank row between the first unfrozen row and the last row with content,
\* placement does not fail and returns the row after the last row with content;
\* the table grows by one row.
C30_DenseAppends ==
    [][\A p \in Procs :
        (~call[p].ign /\ Dense(Dst(p)))
        => /\ pc[p] \in {"g_read", "g_insert"} => pc'[p] # "failed"
           /\ Places(p)
                => /\ loc'[p].firstEmpty = getLastRow(Dst(p)) + 1
                   /\ getMaxRows(sheets'[call[p].sheet]) = getMaxRows(Dst(p)) + 1]_vars

\* FirstGap has returned row MaxRows + 1 on a full table without a blank row,
\* one of whose rows has an empty first column
C30_Witness ==
    /\ pc[1] = "c_copy" /\ ~call[1].ign
    /\ Dense(sheets0["dst"]) /\ getLastRow(sheets0["dst"]) = MaxRows
    /\ \E r \in 1..MaxRows : sheets0["dst"].rows[r].v[1] = ""
    /\ loc[1].firstEmpty = MaxRows + 1

\* execution p goes through a whole getPeriodicSheet, which returns
PeriodicStep(p) == pc[p] = "p_sheet" /\ pc'[p] = "next"

\* what the last event of p says was returned
Returned(p) == ops'[p][Len(ops'[p])]

\* C23: getPeriodicSheet for period "month" or "year" returns the sheet named
\* after the period. If a sheet has that name it is returned and nothing is
\* created; otherwise exactly one sheet is added to the spreadsheet, under that
\* name, a copy of the template when a template name is given and an empty sheet
\* otherwise, and it is the sheet returned. Two calls in the same period return
\* the same sheet.
C23_PeriodicGetOrCreate ==
    /\ [][\A p \in Procs :
            /\ (pc[p] = "p_sheet" /\ call[p].period \in {"month", "year"}
                    /\ (call[p].templateName = NullName
                            \/ call[p].templateName \in DOMAIN sheets))
                => pc'[p] # "failed"
            /\ PeriodicStep(p)
                => /\ PeriodName(call[p]) \in DOMAIN sheets'
                   /\ Returned(p).sheet = PeriodName(call[p])
                   /\ Returned(p).id = sheets'[PeriodName(call[p])].tab
                   /\ IF PeriodName(call[p]) \in DOMAIN sheets
                      THEN sheets' = sheets
                      ELSE /\ DOMAIN sheets' = DOMAIN sheets \cup {PeriodName(call[p])}
                           /\ \A n \in DOMAIN sheets : sheets'[n] = sheets[n]
                           /\ Returned(p).id = nextId
                           /\ IF call[p].templateName # NullName
                              THEN /\ sheets'[PeriodName(call[p])].from
                                        = sheets[call[p].templateName].tab
                                   /\ sheets'[PeriodName(call[p])].rows
                                        = sheets[call[p].templateName].rows
                              ELSE getLastRow(sheets'[PeriodName(call[p])]) = 0]_vars
    /\ [](\A p \in Procs :
            \A e \in Events(p, "getPeriodicSheet") : \A f \in Events(p, "getPeriodicSheet") :
                ops[p][e].id = ops[p][f].id)

\* the name of the month shift months away from month (0..11) of year
ShiftedMonthName(abbreviated, shift, month, year) ==
    MonthlyName(abbreviated, (month + shift) % 12, year + ((month + shift) \div 12))

\* C24: for every month, year and shift the monthly sheet name is that of month
\* (m + s) mod 12 of year y + floor((m + s) / 12), abbreviated or in full.
C24_ShiftArithmetic ==
    \A p \in Procs : \A e \in Events(p, "getPeriodicSheet") :
        call[p].period = "month"
        => ops[p][e].sheet = ShiftedMonthName(call[p].abbreviated, call[p].shift,
                                              call[p].month, call[p].year)

\* execution p goes through a whole getOrCreateSheet, which returns
OrCreateStep(p) == pc[p] = "o_sheet" /\ pc'[p] = "next"

\* C25: after getOrCreateSheet(sheetName, template) has returned, a sheet named
\* sheetName exists and is the sheet returned; when it existed before, nothing is
\* created.
C25_GetOrCreate ==
    [][\A p \in Procs :
        OrCreateStep(p)
        => /\ call[p].sheetName \in DOMAIN sheets'
           /\ Returned(p).id = sheets'[call[p].sheetName].tab
           /\ call[p].sheetName \in DOMAIN sheets => sheets' = sheets]_vars

\* every call of the executions, made or still to be made, uses the lock
AllLocked ==
    \A p \in Procs :
        /\ call[p].fn # "none" => call[p].useLock
        /\ \A i \in 1..Len(todo[p]) : todo[p][i].useLock

\* place in table s of the row with the given identity, 0 if it is not there
PlaceOf(s, id) ==
    IF \E j \in 1..Len(s.rows) : s.rows[j].id = id
    THEN CHOOSE j \in 1..Len(s.rows) : s.rows[j].id = id
    ELSE 0

\* every row of table s is in table t with the same cells, in the same order
Preserved(s, t) ==
    /\ \A i \in 1..Len(s.rows) :
            PlaceOf(t, s.rows[i].id) # 0 /\ t.rows[PlaceOf(t, s.rows[i].id)] = s.rows[i]
    /\ \A i \in 1..Len(s.rows) : \A k \in 1..Len(s.rows) :
            i < k => PlaceOf(t, s.rows[i].id) < PlaceOf(t, s.rows[k].id)

\* C31: when all append and move calls use useLock=true, in every interleaving
\* every row the destination table had at the start is still in it with the same
\* cells, the digest cell included, and in the same relative order; and a step of
\* a call changes no row of the destination but the row that call has reserved,
\* removes none, and adds at most the row it reserves.
C31_ExistingRowsPreserved ==
    /\ [](AllLocked => Preserved(sheets0["dst"], sheets["dst"]))
    /\ [][AllLocked =>
            \A p \in Procs :
                pc'[p] # pc[p]
                => /\ Len(sheets'["dst"].rows) - Len(sheets["dst"].rows)
                        = Cardinality(Events(p, "insert"))' - Cardinality(Events(p, "insert"))
                   /\ \A j \in 1..Len(sheets["dst"].rows) :
                        sheets["dst"].rows[j].id \notin EventIds(p, "insert")
                        => /\ PlaceOf(sheets'["dst"], sheets["dst"].rows[j].id) # 0
                           /\ sheets'["dst"].rows[PlaceOf(sheets'["dst"], sheets["dst"].rows[j].id)]
                                = sheets["dst"].rows[j]]_vars

\* two locked appends with digests have both returned, each with its own new row
C31_Witness ==
    /\ AllLocked
    /\ \A p \in Procs : pc[p] = "done" /\ call[p].digest /\ Events(p, "digest") # {}
    /\ Len(sheets["dst"].rows) = Len(sheets0["dst"].rows) + 2
    /\ Preserved(sheets0["dst"], sheets["dst"])

\* the unfrozen rows of the source that had a non-empty cell when the sweep began
InUseRows0 ==
    {r \in (sheets0["src"].frozen + 1)..Len(sheets0["src"].rows) :
        RowHasContent(sheets0["src"].rows[r])}

\* the k-th smallest element of a set of numbers
Nth(S, k) == CHOOSE x \in S : Cardinality({y \in S : y <= x}) = k

\* the values now held by the destination row of the k-th transfer p has made
Arrived(p, k) ==
    sheets["dst"].rows[PlaceOf(sheets["dst"], ops[p][Nth(Events(p, "write"), k)].id)].v

\* C32: a finished sweep has transferred exactly the unfrozen source rows that
\* had a non-empty cell, one transfer each, no frozen row and no blank row. With
\* deleteFromSource=false the k-th row to arrive in the destination is the k-th
\* of those rows and the source is unchanged; with deleteFromSource=true the k-th
\* to arrive is the k-th from the end, and the source keeps exactly its other rows.
C32_SweepOrderAndScope ==
    pc[1] = "done"
    => /\ Cardinality(Events(1, "write")) = Cardinality(InUseRows0)
       /\ \A k \in 1..Cardinality(InUseRows0) :
            Arrived(1, k) =
                sheets0["src"].rows[Nth(InUseRows0,
                    IF call[1].fn = "move" THEN Cardinality(InUseRows0) + 1 - k ELSE k)].v
       /\ IF call[1].fn = "move"
          THEN {sheets["src"].rows[j].id : j \in 1..Len(sheets["src"].rows)}
                = {sheets0["src"].rows[j].id : j \in 1..Len(sheets0["src"].rows) \ InUseRows0}
          ELSE sheets["src"] = sheets0["src"]

\* a sweep with deleteFromSource=true has moved the two rows in use below a
\* titled frozen row, rows of different values with a blank row between them
C32_Witness ==
    /\ pc[1] = "done" /\ call[1].fn = "move"
    /\ sheets0["src"].frozen = 1 /\ RowHasContent(sheets0["src"].rows[1])
    /\ Cardinality(InUseRows0) = 2
    /\ \E g \in 2..Len(sheets0["src"].rows) :
            g \notin InUseRows0 /\ g < Nth(InUseRows0, 2)
    /\ Arrived(1, 1) # Arrived(1, 2)
    /\ Arrived(1, 1) = sheets0["src"].rows[Nth(InUseRows0, 2)].v

\* the values of the k-th submission of the response sheet, as the range takes them
Submitted(k) == SubSeq(sheets0["src"].rows[k + 1].v, 1, call[1].range.n)

\* the rows of the destination whose digest cell holds d
Holding(d) ==
    {j \in 1..Len(sheets["dst"].rows) : sheets["dst"].rows[j].v[call[1].range.n + 1] = d}

\* C33: when two submissions have been appended with addDigest, the second with
\* or without a duplicate callback and whether or not it was found to be a
\* duplicate, each has reserved one row of its own, which holds its values and,
\* next to them, their digest; the callback was invoked once if the second was
\* found to be a duplicate and not at all otherwise. When the two submissions
\* have the same content after the first column, the digest column holds their
\* digest twice.
C33_DuplicateFlaggedNotSuppressed ==
    pc[1] = "done"
    => /\ Cardinality(Events(1, "insert")) = 2
       /\ Cardinality(Events(1, "write")) = 2
       /\ Cardinality(Events(1, "digest")) = 2
       /\ EventIds(1, "write") = EventIds(1, "insert")
       /\ Cardinality(EventIds(1, "insert")) = 2
       /\ Len(sheets["dst"].rows) = Len(sheets0["dst"].rows) + 2
       /\ \A k \in 1..2 :
            Arrived(1, k) = Pad(Submitted(k) \o <<getDigest(Submitted(k), 1)>>)
       /\ Cardinality(Events(1, "callback")) = (IF loc[1].duplicate THEN 1 ELSE 0)
       /\ Slice(Submitted(1), 1) = Slice(Submitted(2), 1)
            => Cardinality(Holding(getDigest(Submitted(1), 1))) = 2

\* the second submission, made at another time with the same answers, was found
\* to be a duplicate, the callback was invoked, and both rows are in the table
C33_Witness ==
    /\ pc[1] = "done" /\ loc[1].duplicate
    /\ Events(1, "callback") # {}
    /\ Submitted(1)[1] # Submitted(2)[1]
    /\ Slice(Submitted(1), 1) = Slice(Submitted(2), 1)
    /\ Submitted(1)[2] # ""
    /\ Cardinality(Holding(getDigest(Submitted(2), 1))) = 2

\* some call has raised
SomeFailed == \E p \in Procs : pc[p] = "failed"

\* execution p is at a waitLock
Waiting(p) ==
    \/ pc[p] = "m_lock" /\ call[p].useLock
    \/ pc[p] = "c_lock" /\ CopyUseLock(p)

\* C34: when every call uses useLock=true, no call raises and every execution
\* that can take a step eventually takes one, an execution waiting for the lock
\* eventually holds it, an execution holding the lock eventually gives it up, and
\* in the end every execution has returned from all its calls and the lock is
\* free. A move takes the lock once: its inner copy runs with useLock=false while
\* the move holds the lock, and every execution has taken the lock exactly once
\* more than it has released it while it holds it, and as often otherwise.
C34_ProgressUnderLock ==
    /\ \A p \in Procs : (Waiting(p) ~> (lock = p \/ SomeFailed))
    /\ \A p \in Procs : ((lock = p) ~> (lock # p \/ SomeFailed))
    /\ <>[](SomeFailed \/ (lock = 0 /\ \A p \in Procs : pc[p] = "done"))
    /\ [](\A p \in Procs :
            /\ (call[p].fn = "move" /\ pc[p] \in {"c_lock", "c_dup", "g_read", "g_insert",
                                                  "c_copy", "c_digest", "c_notify",
                                                  "c_unlock", "m_delete", "m_unlock"})
                => lock = p /\ ~CopyUseLock(p)
            /\ Cardinality(Events(p, "lock")) - Cardinality(Events(p, "unlock"))
                = (IF lock = p THEN 1 ELSE 0))

\* a move and two copies have all returned, and the lock is free: the move took
\* the lock once, the other execution twice
C34_Witness ==
    /\ \A p \in Procs : pc[p] = "done"
    /\ lock = 0
    /\ Cardinality(Events(1, "lock")) = 2 /\ Cardinality(Events(1, "unlock")) = 2
    /\ Cardinality(Events(2, "lock")) = 1 /\ Cardinality(Events(2, "unlock")) = 1
    /\ Events(2, "delete") # {}

====
